---- MODULE Spec2Model ----
(***************************************************************************)
(* The canvas plugin and the chat route, in three specifications.          *)
(*                                                                         *)
(* GeomSpec: the stroke-to-image export pipeline                           *)
(* (capacitor-canvas-plugin/ios/Sources/CanvasPlugin/Canvas.swift):        *)
(* calculateBoundingBox, addPaddingToBoundingBox,                          *)
(* clipPaddedBoxToCanvasBounds and scaleIfNeeded.                          *)
(*                                                                         *)
(* Spec, FairSpec: the plugin as a state machine (CanvasPlugin,            *)
(* CanvasViewController, the preserved-drawing slot of Canvas) together    *)
(* with the web layer that calls it (lib/useCanvasPlugin.ts, app/page.tsx).*)
(*                                                                         *)
(* ApiSpec: the chat route (app/api/chat/route.ts) and the transfer        *)
(* metrics.                                                                *)
(*                                                                         *)
(* Numbers.  CGFloat is an IEEE-754 binary64 value.  Coordinates and       *)
(* sizes that enter the pipeline are drawn from integers; sums and         *)
(* differences of such integers are exact in binary64 and are modelled by  *)
(* integer arithmetic.  The quotient and the products of scaleIfNeeded are *)
(* rounded by the hardware; they are modelled exactly, as binary64 values  *)
(* m * 2^e with round-to-nearest-even, the significand m being held as a   *)
(* sequence of limbs because it does not fit a 32-bit integer.             *)
(***************************************************************************)
EXTENDS Integers, Sequences, FiniteSets, TLC

(***************************************************************************)
(* Natural numbers of arbitrary size: little-endian sequences of limbs in  *)
(* 0..Base-1 without leading zero limbs; zero is the empty sequence.       *)
(* Small operands (multipliers, divisors) are below 2^14.                  *)
(***************************************************************************)
Base == 2^15

RECURSIVE NatToBig(_)
NatToBig(n) == IF n = 0 THEN <<>> ELSE <<n % Base>> \o NatToBig(n \div Base)

RECURSIVE BigTrim(_)
BigTrim(a) ==
    IF a = <<>> THEN <<>>
    ELSE IF a[Len(a)] = 0 THEN BigTrim(SubSeq(a, 1, Len(a) - 1))
    ELSE a

RECURSIVE BigMulCarry(_, _, _)
BigMulCarry(a, k, c) ==
    IF a = <<>> THEN NatToBig(c)
    ELSE LET t == Head(a) * k + c
         IN  <<t % Base>> \o BigMulCarry(Tail(a), k, t \div Base)

BigMulSmall(a, k) == BigTrim(BigMulCarry(a, k, 0))

RECURSIVE BigDivRec(_, _, _, _)
BigDivRec(a, k, i, rem) ==
    IF i = 0 THEN [q |-> <<>>, r |-> rem]
    ELSE LET cur  == rem * Base + a[i]
             rest == BigDivRec(a, k, i - 1, cur % k)
         IN  [q |-> Append(rest.q, cur \div k), r |-> rest.r]

\* quotient and remainder of a by the small k > 0
BigDivSmall(a, k) ==
    LET d == BigDivRec(a, k, Len(a), 0)
    IN  [q |-> BigTrim(d.q), r |-> d.r]

RECURSIVE BigAddCarry(_, _, _)
BigAddCarry(a, b, c) ==
    IF a = <<>> /\ b = <<>> THEN NatToBig(c)
    ELSE LET x == IF a = <<>> THEN 0 ELSE Head(a)
             y == IF b = <<>> THEN 0 ELSE Head(b)
             t == x + y + c
         IN  <<t % Base>> \o
             BigAddCarry(IF a = <<>> THEN <<>> ELSE Tail(a),
                         IF b = <<>> THEN <<>> ELSE Tail(b), t \div Base)

BigAdd(a, b) == BigTrim(BigAddCarry(a, b, 0))

RECURSIVE BigCmpFrom(_, _, _)
BigCmpFrom(a, b, i) ==
    IF i = 0 THEN 0
    ELSE IF a[i] < b[i] THEN -1
    ELSE IF a[i] > b[i] THEN 1
    ELSE BigCmpFrom(a, b, i - 1)

\* -1, 0 or 1 as a is below, equal to or above b
BigCmp(a, b) ==
    IF Len(a) < Len(b) THEN -1
    ELSE IF Len(a) > Len(b) THEN 1
    ELSE BigCmpFrom(a, b, Len(a))

RECURSIVE BigSubBorrow(_, _, _)
BigSubBorrow(a, b, c) ==
    IF a = <<>> THEN <<>>
    ELSE LET y == IF b = <<>> THEN 0 ELSE Head(b)
             t == Head(a) - y - c
         IN  <<IF t < 0 THEN t + Base ELSE t>> \o
             BigSubBorrow(Tail(a), IF b = <<>> THEN <<>> ELSE Tail(b),
                          IF t < 0 THEN 1 ELSE 0)

\* a - b for a >= b
BigSub(a, b) == BigTrim(BigSubBorrow(a, b, 0))

\* |a - b|
BigAbsDiff(a, b) == IF BigCmp(a, b) >= 0 THEN BigSub(a, b) ELSE BigSub(b, a)

RECURSIVE BitLen(_)
BitLen(n) == IF n = 0 THEN 0 ELSE 1 + BitLen(n \div 2)

BigBitLen(a) == IF a = <<>> THEN 0 ELSE (Len(a) - 1) * 15 + BitLen(a[Len(a)])

BigIsOdd(a) == a # <<>> /\ a[1] % 2 = 1

RECURSIVE BigShl(_, _)
\* a * 2^s
BigShl(a, s) ==
    IF s = 0 THEN a
    ELSE IF s >= 14 THEN BigShl(BigMulSmall(a, 2^14), s - 14)
    ELSE BigMulSmall(a, 2^s)

RECURSIVE BigShr(_, _)
\* [q, half, sticky]: a = q * 2^s + tail, half = the first discarded bit,
\* sticky = some later discarded bit is set
BigShr(a, s) ==
    IF s = 0 THEN [q |-> a, half |-> FALSE, sticky |-> FALSE]
    ELSE IF s > 14
         THEN LET lo == BigDivSmall(a, 2^14)
                  hi == BigShr(lo.q, s - 14)
              IN  [q |-> hi.q, half |-> hi.half,
                   sticky |-> hi.sticky \/ lo.r # 0]
    ELSE LET d == BigDivSmall(a, 2^s)
         IN  [q |-> d.q, half |-> d.r >= 2^(s - 1),
              sticky |-> d.r % 2^(s - 1) # 0]

(***************************************************************************)
(* binary64 values that are not negative: m * 2^e with m odd (or m = 0,    *)
(* e = 0), so that equal values are equal records; k = "inf" is +infinity. *)
(***************************************************************************)
Precision == 53

RECURSIVE DblNorm(_, _)
DblNorm(m, e) ==
    IF m = <<>> THEN [k |-> "fin", m |-> <<>>, e |-> 0]
    ELSE IF m[1] = 0 THEN DblNorm(Tail(m), e + 15)
    ELSE IF m[1] % 2 = 0 THEN DblNorm(BigDivSmall(m, 2).q, e + 1)
    ELSE [k |-> "fin", m |-> m, e |-> e]

DblInf == [k |-> "inf", m |-> <<>>, e |-> 0]

\* the binary64 value nearest to (m + t) * 2^e, ties to even, where
\* 0 <= t < 1 and sticky tells whether t > 0
DblRound(m, e, sticky) ==
    LET len == BigBitLen(m)
    IN  IF len <= Precision THEN DblNorm(m, e)
        ELSE LET s  == len - Precision
                 sh == BigShr(m, s)
                 up == sh.half /\ (sh.sticky \/ sticky \/ BigIsOdd(sh.q))
             IN  DblNorm(IF up THEN BigAdd(sh.q, <<1>>) ELSE sh.q, e + s)

\* CGFloat(n) for an integer n >= 0
DblFromInt(n) == DblNorm(NatToBig(n), 0)

\* a / b in binary64, for integers a > 0 and b >= 0 (x / 0 is +infinity)
FDiv(a, b) ==
    IF b = 0 THEN DblInf
    ELSE LET d == BigDivSmall(BigShl(NatToBig(a), 70), b)
         IN  DblRound(d.q, -70, d.r # 0)

\* w * s in binary64, for an integer w >= 0 and a binary64 s
FMul(w, s) ==
    IF s.k = "inf" THEN DblInf
    ELSE DblRound(BigMulSmall(s.m, w), s.e, FALSE)

\* -1, 0 or 1 as a is below, equal to or above b
DblCmp(a, b) ==
    IF a.k = "inf" THEN (IF b.k = "inf" THEN 0 ELSE 1)
    ELSE IF b.k = "inf" THEN -1
    ELSE LET lo == IF a.e < b.e THEN a.e ELSE b.e
         IN  BigCmp(BigShl(a.m, a.e - lo), BigShl(b.m, b.e - lo))

\* the larger of the two
FMinTakesLarger(x, y) == IF DblCmp(y, x) < 0 THEN x ELSE y

\* Swift's min(x, y): y when y < x, else x
FMin(x, y) == IF DblCmp(y, x) < 0 THEN y ELSE x

(***************************************************************************)
(* CGPoint and CGRect.  A rectangle is [x, y, width, height]; CGRect.null  *)
(* has its origin at infinity and size zero.  Infinity stands for          *)
(* CGFloat.infinity: every coordinate drawn below is finite and far        *)
(* smaller in magnitude.                                                   *)
(***************************************************************************)
Infinity == 1000000

Min(a, b) == IF b < a THEN b ELSE a
Max(a, b) == IF b > a THEN b ELSE a

CGPoint(x, y) == [x |-> x, y |-> y]
CGRect(x, y, w, h) == [x |-> x, y |-> y, width |-> w, height |-> h]
CGRectZero == CGRect(0, 0, 0, 0)
CGRectNull == CGRect(Infinity, Infinity, 0, 0)

IsNull(r) == r.x = Infinity \/ r.y = Infinity

Standardized(r) ==
    IF IsNull(r) THEN CGRectNull
    ELSE CGRect(IF r.width < 0 THEN r.x + r.width ELSE r.x,
                IF r.height < 0 THEN r.y + r.height ELSE r.y,
                IF r.width < 0 THEN -r.width ELSE r.width,
                IF r.height < 0 THEN -r.height ELSE r.height)

\* CGRect.width, .height, .minX, .maxX, .minY, .maxY read the standardized
\* rectangle
Width(r)  == Standardized(r).width
Height(r) == Standardized(r).height
MinX(r)   == Standardized(r).x
MinY(r)   == Standardized(r).y
MaxX(r)   == Standardized(r).x + Standardized(r).width
MaxY(r)   == Standardized(r).y + Standardized(r).height

\* CGRect.isEmpty: null, or zero width or height
IsEmpty(r) == IsNull(r) \/ r.width = 0 \/ r.height = 0

\* CGRect.insetBy(dx:dy:): the standardized rectangle moved in by dx and dy
\* on every side; null when that leaves a negative width or height
InsetBy(r, dx, dy) ==
    IF IsNull(r) THEN CGRectNull
    ELSE LET s == Standardized(r)
         IN  IF s.width - 2 * dx < 0 \/ s.height - 2 * dy < 0
             THEN CGRectNull
             ELSE CGRect(s.x + dx, s.y + dy,
                         s.width - 2 * dx, s.height - 2 * dy)

\* CGRect.intersection(_:): null for rectangles that do not meet; rectangles
\* that share only an edge or a corner give a rectangle of zero width or
\* height there, which is empty like null
Intersection(r1, r2) ==
    IF IsNull(r1) \/ IsNull(r2) THEN CGRectNull
    ELSE IF MaxX(r1) < MinX(r2) \/ MaxX(r2) < MinX(r1)
            \/ MaxY(r1) < MinY(r2) \/ MaxY(r2) < MinY(r1)
         THEN CGRectNull
    ELSE LET x0 == Max(MinX(r1), MinX(r2))
             y0 == Max(MinY(r1), MinY(r2))
             x1 == Min(MaxX(r1), MaxX(r2))
             y1 == Min(MaxY(r1), MaxY(r2))
         IN  CGRect(x0, y0, x1 - x0, y1 - y0)

(***************************************************************************)
(* struct BoundingBox                                                      *)
(***************************************************************************)
\* extrema that start at the origin instead of at infinity
BoundingBoxAtOrigin ==
    [minX |-> 0, minY |-> 0, maxX |-> 0, maxY |-> 0]

BoundingBox ==
    [minX |-> Infinity, minY |-> Infinity,
     maxX |-> -Infinity, maxY |-> -Infinity]

\* expand that never raises maxY
expandLosesMaxY(bbox, point) ==
    [minX |-> Min(bbox.minX, point.x), minY |-> Min(bbox.minY, point.y),
     maxX |-> Max(bbox.maxX, point.x), maxY |-> bbox.maxY]

expand(bbox, point) ==
    [minX |-> Min(bbox.minX, point.x), minY |-> Min(bbox.minY, point.y),
     maxX |-> Max(bbox.maxX, point.x), maxY |-> Max(bbox.maxY, point.y)]

\* rect without the guard for the untouched extrema
BoundingBoxRectUnguarded(bbox) ==
    CGRect(bbox.minX, bbox.minY,
           bbox.maxX - bbox.minX, bbox.maxY - bbox.minY)

BoundingBoxRect(bbox) ==
    IF bbox.minX = Infinity THEN CGRectZero
    ELSE CGRect(bbox.minX, bbox.minY,
                bbox.maxX - bbox.minX, bbox.maxY - bbox.minY)

(***************************************************************************)
(* A drawing is a sequence of strokes, a stroke the sequence of the        *)
(* locations of the points of its path.                                    *)
(***************************************************************************)
RECURSIVE ExpandPath(_, _)
\* for point in stroke.path { bbox.expand(to: point.location) }
ExpandPath(bbox, path) ==
    IF path = <<>> THEN bbox
    ELSE ExpandPath(expand(bbox, Head(path)), Tail(path))

RECURSIVE ExpandStrokes(_, _)
\* for stroke in drawing.strokes { ... }
ExpandStrokes(bbox, strokes) ==
    IF strokes = <<>> THEN bbox
    ELSE ExpandStrokes(ExpandPath(bbox, Head(strokes)), Tail(strokes))

calculateBoundingBox(d) == BoundingBoxRect(ExpandStrokes(BoundingBox, d))

Padding == 32

\* the floor applied in place of the inset: the size is the larger of the
\* unpadded size and twice the padding
addPaddingFloorOnly(boundingBox, padding) ==
    LET paddedBox == InsetBy(boundingBox, -padding, -padding)
        minWidth  == Max(Width(boundingBox), 2 * padding)
        minHeight == Max(Height(boundingBox), 2 * padding)
    IN  CGRect(paddedBox.x, paddedBox.y, minWidth, minHeight)

\* padding with the sign of the inset lost: the box shrinks
addPaddingInward(boundingBox, padding) ==
    LET paddedBox == InsetBy(boundingBox, padding, padding)
        minWidth  == Max(Width(paddedBox), 2 * padding)
        minHeight == Max(Height(paddedBox), 2 * padding)
    IN  CGRect(paddedBox.x, paddedBox.y, minWidth, minHeight)

addPaddingToBoundingBox(boundingBox, padding) ==
    LET paddedBox == InsetBy(boundingBox, -padding, -padding)
        minWidth  == Max(Width(paddedBox), 2 * padding)
        minHeight == Max(Height(paddedBox), 2 * padding)
    IN  CGRect(paddedBox.x, paddedBox.y, minWidth, minHeight)

\* clipping that always answers with the canvas bounds
clipToCanvasBounds(paddedBox, bounds) == bounds

\* clipping without the fallback to the canvas bounds
clipWithoutFallback(paddedBox, bounds) == Intersection(paddedBox, bounds)

clipPaddedBoxToCanvasBounds(paddedBox, bounds) ==
    LET clippedBox == Intersection(paddedBox, bounds)
    IN  IF IsEmpty(clippedBox) THEN bounds ELSE clippedBox

MaxDimension == 3200

\* CGSize of a rectangle whose width and height are not negative
SizeOf(r) == [width |-> DblFromInt(r.width), height |-> DblFromInt(r.height)]

\* the guard asking for both dimensions to exceed the maximum
scaleIfBothExceed(r, maxDimension) ==
    LET width  == Width(r)
        height == Height(r)
    IN  IF ~(width > maxDimension /\ height > maxDimension)
        THEN [original |-> r, scale |-> DblFromInt(1), size |-> SizeOf(r)]
        ELSE LET scale == FMin(FDiv(maxDimension, width),
                               FDiv(maxDimension, height))
             IN  [original |-> r, scale |-> scale,
                  size |-> [width  |-> FMul(width, scale),
                            height |-> FMul(height, scale)]]

\* each dimension scaled by its own ratio
scaleEachAxis(r, maxDimension) ==
    LET width  == Width(r)
        height == Height(r)
    IN  IF ~(width > maxDimension \/ height > maxDimension)
        THEN [original |-> r, scale |-> DblFromInt(1), size |-> SizeOf(r)]
        ELSE LET scale == FMin(FDiv(maxDimension, width),
                               FDiv(maxDimension, height))
             IN  [original |-> r, scale |-> scale,
                  size |-> [width  |-> FMul(width, FDiv(maxDimension, width)),
                            height |-> FMul(height,
                                            FDiv(maxDimension, height))]]

scaleIfNeeded(r, maxDimension) ==
    LET width  == Width(r)
        height == Height(r)
    IN  IF ~(width > maxDimension \/ height > maxDimension)
        THEN [original |-> r, scale |-> DblFromInt(1), size |-> SizeOf(r)]
        ELSE LET scale == FMin(FDiv(maxDimension, width),
                               FDiv(maxDimension, height))
             IN  [original |-> r, scale |-> scale,
                  size |-> [width  |-> FMul(width, scale),
                            height |-> FMul(height, scale)]]

(***************************************************************************)
(* Inputs.  The strokes are drawn from StrokeSet, which holds the stroke   *)
(* of three points at (100,100), (150,120), (130,90), the same points in   *)
(* another order, strokes at the corners of a 2048 x 2732 canvas, a stroke *)
(* that leaves the canvas and a stroke without points.                     *)
(***************************************************************************)
MaxStrokes == 3

StrokeSet ==
    { <<>>,
      <<CGPoint(100, 100), CGPoint(150, 120), CGPoint(130, 90)>>,
      <<CGPoint(130, 90), CGPoint(100, 100), CGPoint(150, 120)>>,
      <<CGPoint(100, 100)>>,
      <<CGPoint(0, 0)>>,
      <<CGPoint(2048, 2732)>>,
      <<CGPoint(150, 120), CGPoint(-5, 40)>> }

RECURSIVE SeqsUpTo(_, _)
\* the sequences over S of length at most n
SeqsUpTo(S, n) ==
    IF n = 0 THEN {<<>>}
    ELSE LET shorter == SeqsUpTo(S, n - 1)
         IN  shorter \cup {Append(q, x) : q \in shorter, x \in S}

Drawings == SeqsUpTo(StrokeSet, MaxStrokes)

Canvases ==
    { CGRect(0, 0, 2048, 2732), CGRect(0, 0, 4240, 3000),
      CGRect(0, 0, 120, 110), CGRect(10, 20, 300, 400), CGRect(0, 0, 0, 0) }

Boxes ==
    {calculateBoundingBox(d) : d \in SeqsUpTo(StrokeSet, 2)}
        \cup {CGRect(10, 20, w, h) : w, h \in {0, 1, 63, 64, 65, 200}}
        \cup {CGRect(0, 0, 2048, 2732)}

PaddedBoxes ==
    {addPaddingToBoundingBox(b, Padding) : b \in Boxes}
        \cup { CGRect(5000, 5000, 64, 64), CGRect(2048, 0, 64, 64),
               CGRect(-100, -100, 5000, 5000), CGRect(40, 50, 10, 10) }

Dims == {0, 1, 64, 94, 114, 2560, 2732, 3200, 3201, 4000, 4240, 5000}

ScaleRects ==
    {CGRect(0, 0, w, h) : w \in Dims, h \in Dims}
        \cup {CGRect(68, 58, 114, 94), CGRect(-32, -32, 5000, 4000)}

MaxDimensions == {MaxDimension, 100, 3}

Ops ==
    { "calculateBoundingBox", "addPaddingToBoundingBox",
      "clipPaddedBoxToCanvasBounds", "scaleIfNeeded", "submitTapped" }

NoScaling ==
    [original |-> CGRectZero, scale |-> DblFromInt(1),
     size |-> SizeOf(CGRectZero)]

(***************************************************************************)
(* State: the call under way (op and its arguments: the drawing and the    *)
(* bounds of the canvas view, or the rectangle and the maximum handed to   *)
(* a function), pc, and what the call has computed.                        *)
(***************************************************************************)
VARIABLES pc, op, drawing, canvasBounds, rect, maxDimension,
          boundingBox, paddedBox, clippedBox, scalingResult, rendered

geomVars ==
    <<pc, op, drawing, canvasBounds, rect, maxDimension,
      boundingBox, paddedBox, clippedBox, scalingResult, rendered>>

(***************************************************************************)
(* Optional values (Swift T?, a missing header, an unset variable): the    *)
(* empty set for nil, a singleton for a value.                             *)
(***************************************************************************)
None == {}

Some(x) == {x}

The(o) == CHOOSE x \in o : TRUE

(***************************************************************************)
(* State of the native side and of the web layer.                          *)
(*   preservedDrawing       Canvas.preservedDrawing, the static slot       *)
(*   vcs                    the CanvasViewControllers created so far, each *)
(*                          with canvasView.drawing, its stage on screen   *)
(*                          and the completion of a dismissal under way    *)
(*   canvasViewController, currentCall, isCanvasOpen, isPencilInitiated    *)
(*                          the fields of CanvasPlugin (0 for nil)         *)
(*   bridgeViewController   whether bridge?.viewController is there        *)
(*   mainQueue              the blocks handed to DispatchQueue.main.async  *)
(*   calls                  the openCanvas calls of the web layer          *)
(*   events                 what notifyListeners has sent                  *)
(*   webIsCanvasOpen, hasUnsavedContent   the state of useCanvasPlugin     *)
(*   sentMessages           the images handed to sendMessage               *)
(*   inputs                 how many button presses of the web layer,      *)
(*                          double-taps and failures of image.pngData()    *)
(*                          there have been                                *)
(*   lastSubmit             what the last submitTapped rendered, encoded   *)
(*                          and the steps it ran, in order                 *)
(***************************************************************************)
VARIABLES preservedDrawing, vcs, canvasViewController, currentCall,
          isCanvasOpen, isPencilInitiated, bridgeViewController, mainQueue,
          calls, events, webIsCanvasOpen, hasUnsavedContent, sentMessages,
          inputs, lastSubmit

plugVars ==
    <<preservedDrawing, vcs, canvasViewController, currentCall,
      isCanvasOpen, isPencilInitiated, bridgeViewController, mainQueue,
      calls, events, webIsCanvasOpen, hasUnsavedContent, sentMessages,
      inputs, lastSubmit>>

NoSubmit == [vc |-> 0, rendered |-> FALSE, encoded |-> FALSE, ran |-> <<>>]

\* the plugin after load(), the web layer after the hook has mounted
PluginLoaded(bridgeVC) ==
    /\ preservedDrawing = None
    /\ vcs = <<>>
    /\ canvasViewController = 0
    /\ currentCall = 0
    /\ isCanvasOpen = FALSE
    /\ isPencilInitiated = FALSE
    /\ bridgeViewController = bridgeVC
    /\ mainQueue = <<>>
    /\ calls = <<>>
    /\ events = <<>>
    /\ webIsCanvasOpen = FALSE
    /\ hasUnsavedContent = FALSE
    /\ sentMessages = <<>>
    /\ inputs = 0
    /\ lastSubmit = NoSubmit

(***************************************************************************)
(* State of one call of the chat route or of a metrics function: the call  *)
(* (apiOp and its arguments: the request and API_SECRET_KEY, or the size   *)
(* of the binary payload), apiPc, and what the call has returned.          *)
(***************************************************************************)
VARIABLES apiPc, apiOp, request, apiSecretKey, response, binarySize, metrics,
          env, dimensions

apiVars ==
    <<apiPc, apiOp, request, apiSecretKey, response, binarySize, metrics,
      env, dimensions>>

\* process.env without NODE_ENV and API_ONLY_MODE
NoEnv == [NODE_ENV |-> None, API_ONLY_MODE |-> None]

\* the three sizes handed to logExportDimensions
Dimensions(original, cropped, final) ==
    [original |-> original, cropped |-> cropped, final |-> final]

NoDimensions ==
    Dimensions(SizeOf(CGRectZero), SizeOf(CGRectZero), SizeOf(CGRectZero))

NoRequest == [apiKey |-> None, contentType |-> "", body |-> "none"]

NoResponse ==
    [status |-> 0, error |-> "", bodyRead |-> FALSE, forwarded |-> FALSE]

NoMetrics ==
    [binarySize |-> 0, base64Size |-> 0, savingsBytes |-> 0,
     savingsPercent |-> DblFromInt(0)]

ApiIdle ==
    /\ apiPc = "idle"
    /\ apiOp = "none"
    /\ request = NoRequest
    /\ apiSecretKey = None
    /\ response = NoResponse
    /\ binarySize = 0
    /\ metrics = NoMetrics
    /\ env = NoEnv
    /\ dimensions = NoDimensions

GeomIdle ==
    /\ pc = "idle"
    /\ op = "none"
    /\ drawing = <<>>
    /\ canvasBounds = CGRectZero
    /\ rect = CGRectZero
    /\ maxDimension = MaxDimension
    /\ boundingBox = CGRectZero
    /\ paddedBox = CGRectZero
    /\ clippedBox = CGRectZero
    /\ scalingResult = NoScaling
    /\ rendered = FALSE

GeomInit ==
    /\ pc = "call"
    /\ op \in Ops
    /\ drawing \in
         IF op \in {"calculateBoundingBox", "submitTapped"}
         THEN Drawings ELSE {<<>>}
    /\ canvasBounds \in
         IF op \in {"clipPaddedBoxToCanvasBounds", "submitTapped"}
         THEN Canvases ELSE {CGRectZero}
    /\ rect \in
         CASE op = "addPaddingToBoundingBox" -> Boxes
           [] op = "clipPaddedBoxToCanvasBounds" -> PaddedBoxes
           [] op = "scaleIfNeeded" -> ScaleRects
           [] OTHER -> {CGRectZero}
    /\ maxDimension \in
         IF op = "scaleIfNeeded" THEN MaxDimensions ELSE {MaxDimension}
    /\ boundingBox = CGRectZero
    /\ paddedBox = CGRectZero
    /\ clippedBox = CGRectZero
    /\ scalingResult = NoScaling
    /\ rendered = FALSE
    /\ PluginLoaded(TRUE)
    /\ ApiIdle

CalculateBoundingBox ==
    /\ pc = "call" /\ op = "calculateBoundingBox"
    /\ boundingBox' = calculateBoundingBox(drawing)
    /\ pc' = "done"
    /\ UNCHANGED <<op, drawing, canvasBounds, rect, maxDimension,
                   paddedBox, clippedBox, scalingResult, rendered>>
    /\ UNCHANGED <<plugVars, apiVars>>

AddPaddingToBoundingBox ==
    /\ pc = "call" /\ op = "addPaddingToBoundingBox"
    /\ paddedBox' = addPaddingToBoundingBox(rect, Padding)
    /\ pc' = "done"
    /\ UNCHANGED <<op, drawing, canvasBounds, rect, maxDimension,
                   boundingBox, clippedBox, scalingResult, rendered>>
    /\ UNCHANGED <<plugVars, apiVars>>

ClipPaddedBoxToCanvasBounds ==
    /\ pc = "call" /\ op = "clipPaddedBoxToCanvasBounds"
    /\ clippedBox' = clipPaddedBoxToCanvasBounds(rect, canvasBounds)
    /\ pc' = "done"
    /\ UNCHANGED <<op, drawing, canvasBounds, rect, maxDimension,
                   boundingBox, paddedBox, scalingResult, rendered>>
    /\ UNCHANGED <<plugVars, apiVars>>

ScaleIfNeeded ==
    /\ pc = "call" /\ op = "scaleIfNeeded"
    /\ scalingResult' = scaleIfNeeded(rect, maxDimension)
    /\ pc' = "done"
    /\ UNCHANGED <<op, drawing, canvasBounds, rect, maxDimension,
                   boundingBox, paddedBox, clippedBox, rendered>>
    /\ UNCHANGED <<plugVars, apiVars>>

\* submitTapped up to the call of drawing.image(from:scale:): the guard on
\* the strokes, then bounding box, padding, clipping and scaling
SubmitTappedRegion ==
    /\ pc = "call" /\ op = "submitTapped"
    /\ pc' = "done"
    /\ IF drawing = <<>>
       THEN UNCHANGED <<boundingBox, paddedBox, clippedBox, scalingResult,
                        rendered>>
       ELSE LET bb  == calculateBoundingBox(drawing)
                pad == addPaddingToBoundingBox(bb, Padding)
                cl  == clipPaddedBoxToCanvasBounds(pad, canvasBounds)
            IN  /\ boundingBox' = bb
                /\ paddedBox' = pad
                /\ clippedBox' = cl
                /\ scalingResult' = scaleIfNeeded(cl, MaxDimension)
                /\ rendered' = TRUE
    /\ UNCHANGED <<op, drawing, canvasBounds, rect, maxDimension>>
    /\ UNCHANGED <<plugVars, apiVars>>

GeomNext ==
    \/ CalculateBoundingBox
    \/ AddPaddingToBoundingBox
    \/ ClipPaddedBoxToCanvasBounds
    \/ ScaleIfNeeded
    \/ SubmitTappedRegion

GeomSpec == GeomInit /\ [][GeomNext]_geomVars

(***************************************************************************)
(* Properties                                                              *)
(***************************************************************************)
Returned(o) == pc = "done" /\ op = o

\* the points of every stroke of a drawing
PointsOf(d) == UNION {{d[i][j] : j \in 1..Len(d[i])} : i \in 1..Len(d)}

\* p lies in r, the boundary included
Holds(r, p) ==
    /\ r.x <= p.x /\ p.x <= r.x + r.width
    /\ r.y <= p.y /\ p.y <= r.y + r.height

\* C1: for a drawing with at least one point, the rectangle returned by
\* calculateBoundingBox contains every point of every stroke, the boundary
\* included.
C1_Containment ==
    (Returned("calculateBoundingBox") /\ PointsOf(drawing) # {})
        => \A p \in PointsOf(drawing) : Holds(boundingBox, p)

C1_Witness ==
    /\ Returned("calculateBoundingBox")
    /\ Len(drawing) >= 2
    /\ Cardinality(PointsOf(drawing)) >= 4
    /\ boundingBox = CGRect(-5, 0, 2053, 2732)

\* C2: for a drawing whose points all lie within the canvas bounds, the
\* region handed to the renderer by submitTapped (bounding box, 32 units of
\* padding, clipping to the canvas) contains every point of every stroke.
C2_RegionKeepsContent ==
    (/\ Returned("submitTapped") /\ rendered
     /\ \A p \in PointsOf(drawing) : Holds(canvasBounds, p))
        => \A p \in PointsOf(drawing) : Holds(scalingResult.original, p)

C2_Witness ==
    /\ Returned("submitTapped") /\ rendered
    /\ Cardinality(PointsOf(drawing)) >= 3
    /\ \A p \in PointsOf(drawing) : Holds(canvasBounds, p)
    /\ clippedBox # paddedBox
    /\ scalingResult.original = canvasBounds

(***************************************************************************)
(* Exact arithmetic on values m * 2^e, for stating what the rounded        *)
(* results of scaleIfNeeded are compared with.                             *)
(***************************************************************************)
\* k * d, not rounded
ExactTimes(k, d) == DblNorm(BigMulSmall(d.m, k), d.e)

\* |a - b|, not rounded
ExactAbsDiff(a, b) ==
    LET lo == IF a.e < b.e THEN a.e ELSE b.e
    IN  DblNorm(BigAbsDiff(BigShl(a.m, a.e - lo), BigShl(b.m, b.e - lo)), lo)

\* half of the distance between d and the next binary64 value above it
HalfUlp(d) ==
    [k |-> "fin", m |-> <<1>>, e |-> d.e + BigBitLen(d.m) - Precision - 1]

\* d is a binary64 value nearest to num / den
NearestToQuotient(d, num, den) ==
    /\ d.k = "fin"
    /\ DblCmp(ExactAbsDiff(ExactTimes(den, d), DblFromInt(num)),
              ExactTimes(den, HalfUlp(d))) <= 0

\* d is a binary64 value nearest to w * s
NearestToProduct(d, w, s) ==
    /\ d.k = "fin"
    /\ DblCmp(ExactAbsDiff(d, ExactTimes(w, s)), HalfUlp(d)) <= 0

NeedsScaling == Width(rect) > maxDimension \/ Height(rect) > maxDimension

\* C3: for a rectangle of positive width and height and a positive max,
\* scaleIfNeeded returns a size with width <= max and height <= max.
C3_ScaleCeiling ==
    (Returned("scaleIfNeeded") /\ Width(rect) > 0 /\ Height(rect) > 0)
        => /\ DblCmp(scalingResult.size.width, DblFromInt(maxDimension)) <= 0
           /\ DblCmp(scalingResult.size.height, DblFromInt(maxDimension)) <= 0

C5_NoOpScale ==
    Returned("scaleIfNeeded")
        => /\ ~NeedsScaling
                => /\ scalingResult.scale = DblFromInt(1)
                   /\ DblCmp(scalingResult.size.width,
                             DblFromInt(rect.width)) = 0
                   /\ DblCmp(scalingResult.size.height,
                             DblFromInt(rect.height)) = 0
           /\ (scalingResult.scale = DblFromInt(1)) <=> ~NeedsScaling

C5_Witness ==
    /\ Returned("scaleIfNeeded")
    /\ Width(rect) = maxDimension /\ Height(rect) = maxDimension
    /\ scalingResult.scale = DblFromInt(1)
    /\ scalingResult.size = SizeOf(rect)

\* C6: for a rectangle that exceeds max on at least one axis, scaleIfNeeded
\* returns scale = min(max / width, max / height), that is the binary64
\* value of max over the larger dimension, size = (width * scale,
\* height * scale) in binary64, and original = the rectangle handed in;
\* for 5000 x 4000 and max 3200 the scale is 0.64 and the size 3200 x 2560.
C6_ScaleFormula ==
    (Returned("scaleIfNeeded") /\ NeedsScaling)
        => /\ scalingResult.original = rect
           /\ NearestToQuotient(scalingResult.scale, maxDimension,
                                Max(Width(rect), Height(rect)))
           /\ NearestToProduct(scalingResult.size.width, Width(rect),
                               scalingResult.scale)
           /\ NearestToProduct(scalingResult.size.height, Height(rect),
                               scalingResult.scale)
           /\ (Width(rect) = 5000 /\ Height(rect) = 4000
                 /\ maxDimension = 3200)
                => /\ NearestToQuotient(scalingResult.scale, 16, 25)
                   /\ scalingResult.size.width = DblFromInt(3200)
                   /\ scalingResult.size.height = DblFromInt(2560)

C6_Witness ==
    /\ Returned("scaleIfNeeded")
    /\ Width(rect) = 5000 /\ Height(rect) = 4000 /\ maxDimension = 3200
    /\ scalingResult.size = [width |-> DblFromInt(3200),
                             height |-> DblFromInt(2560)]

\* a lies within b
Within(a, b) ==
    /\ MinX(b) <= MinX(a) /\ MaxX(a) <= MaxX(b)
    /\ MinY(b) <= MinY(a) /\ MaxY(a) <= MaxY(b)

C8_PaddingFloor ==
    Returned("addPaddingToBoundingBox")
        => /\ paddedBox.width >= 64 /\ paddedBox.height >= 64
           /\ Width(rect) > 64 => paddedBox.width = Width(rect) + 64
           /\ Height(rect) > 64 => paddedBox.height = Height(rect) + 64

C8_Witness ==
    /\ Returned("addPaddingToBoundingBox")
    /\ Width(rect) > 64 /\ Height(rect) < 64
    /\ paddedBox.width = Width(rect) + 64 /\ paddedBox.height >= 64

\* C9: for a drawing without strokes, or whose strokes all have no points,
\* calculateBoundingBox returns the rectangle of zero area at the origin.
C9_EmptySentinel ==
    (Returned("calculateBoundingBox") /\ PointsOf(drawing) = {})
        => boundingBox = CGRectZero

C9_Witness ==
    /\ Returned("calculateBoundingBox")
    /\ Len(drawing) >= 2 /\ PointsOf(drawing) = {}
    /\ boundingBox = CGRectZero

\* the least and the greatest member of a finite set of integers
Least(S) == CHOOSE x \in S : \A y \in S : x <= y
Greatest(S) == CHOOSE x \in S : \A y \in S : x >= y

\* C10: for a drawing with at least one point the rectangle returned by
\* calculateBoundingBox is the minimal one: x is the least p.x, y the least
\* p.y, x + width the greatest p.x and y + height the greatest p.y over the
\* set of all points, whatever the order of strokes and points.
C10_Minimal ==
    (Returned("calculateBoundingBox") /\ PointsOf(drawing) # {})
        => LET xs == {p.x : p \in PointsOf(drawing)}
               ys == {p.y : p \in PointsOf(drawing)}
           IN  /\ boundingBox.x = Least(xs)
               /\ boundingBox.y = Least(ys)
               /\ boundingBox.x + boundingBox.width = Greatest(xs)
               /\ boundingBox.y + boundingBox.height = Greatest(ys)

C10_Witness ==
    /\ Returned("calculateBoundingBox")
    /\ Len(drawing) = 1 /\ Len(drawing[1]) = 3
    /\ drawing[1][1] = CGPoint(130, 90)
    /\ boundingBox = CGRect(100, 90, 50, 30)

(***************************************************************************)
(* The canvas plugin: Canvas and CanvasViewController (Canvas.swift),      *)
(* CanvasPlugin with pencil support, and the web layer (useCanvasPlugin,   *)
(* page.tsx).  Every handler runs on the main thread, one at a time.       *)
(***************************************************************************)
\* button presses of the web layer, double-taps of the pencil and failures
\* of image.pngData() in one run
MaxInputs == 3

MaxInk == 1

\* what a pencil can add to the canvas
InkStrokes == {<<CGPoint(100, 100)>>}

\* canvasView.bounds of a presented canvas
ViewBounds == CGRect(0, 0, 2048, 2732)

\* the stages in which a view controller is held by a presentation
OnScreen == {"presenting", "presented", "swiping", "dismissing"}

\* Canvas.hasContent
HasContent(slot) ==
    IF slot = None THEN FALSE ELSE The(slot) # <<>>

\* a clearCanvas that leaves the slot as it is
ClearCanvasKeeps(slot) == slot

\* Canvas.clearCanvas
ClearCanvas(slot) == None

\* the image submitTapped renders from a drawing: the region and the scale
\* handed to drawing.image(from:scale:), the size of the renderer, the ink
RenderImage(d, bounds) ==
    LET bb  == calculateBoundingBox(d)
        pad == addPaddingToBoundingBox(bb, Padding)
        cl  == clipPaddedBoxToCanvasBounds(pad, bounds)
        sr  == scaleIfNeeded(cl, MaxDimension)
    IN  [from |-> sr.original, scale |-> sr.scale, size |-> sr.size,
         ink |-> d]

Result(action, imageData, hasContent) ==
    [action |-> action, imageData |-> imageData, hasContent |-> hasContent]

PendingCall == [state |-> "pending", result |-> Result("", None, FALSE),
                resumed |-> FALSE]

\* call.resolve / call.reject: a call is settled once
Settle(c, state, result) ==
    IF c # 0 /\ calls[c].state = "pending"
    THEN [calls EXCEPT ![c].state = state, ![c].result = result]
    ELSE calls

\* the part the three delegate callbacks of CanvasPlugin share
Deliver(name, result) ==
    /\ isCanvasOpen' = FALSE
    /\ IF isPencilInitiated
       THEN /\ events' = Append(events, [name |-> name, data |-> result])
            /\ isPencilInitiated' = FALSE
            /\ UNCHANGED <<currentCall, calls>>
       ELSE /\ calls' = Settle(currentCall, "resolved", result)
            /\ currentCall' = 0
            /\ UNCHANGED <<events, isPencilInitiated>>
    /\ canvasViewController' = 0

canvasDidSubmit(imageData) ==
    Deliver("canvasSubmitted", Result("submitted", Some(imageData), FALSE))

canvasDidMinimize(hasContent) ==
    Deliver("canvasMinimized", Result("minimized", None, hasContent))

canvasDidCancel ==
    Deliver("canvasCancelled",
            Result("cancelled", None, HasContent(preservedDrawing)))

\* UIKit presents one view controller at a time from the bridge's view
\* controller
PresenterBusy == \E i \in 1..Len(vcs) : vcs[i].stage \in OnScreen

\* CanvasViewController(): canvasView holds an empty drawing
NewCanvasViewController ==
    [drawing |-> <<>>, stage |-> "created", completion |-> None]

\* restoreDrawing, called by viewDidLoad
restoreDrawing(vc) ==
    IF preservedDrawing # None
    THEN [vc EXCEPT !.drawing = The(preservedDrawing)]
    ELSE vc

\* presentCanvas: a new view controller becomes canvasViewController; it is
\* presented (and its view loaded) when the bridge has a view controller
\* that is not presenting already
presentCanvas ==
    /\ canvasViewController' = Len(vcs) + 1
    /\ vcs' = Append(vcs,
                IF bridgeViewController /\ ~PresenterBusy
                THEN [restoreDrawing(NewCanvasViewController)
                        EXCEPT !.stage = "presenting"]
                ELSE NewCanvasViewController)

\* dismiss(animated:completion:) on view controller i: a presented view
\* controller starts to leave, its completion runs when it has left
dismiss(i, completion) ==
    IF vcs[i].stage = "presented"
    THEN [vcs EXCEPT ![i].stage = "dismissing",
                     ![i].completion = Some(completion)]
    ELSE vcs

Completion(cb, imageData, hasContent) ==
    [cb |-> cb, imageData |-> imageData, hasContent |-> hasContent]

\* minimizeCanvas of view controller i
minimizeCanvas(i) ==
    /\ preservedDrawing' = Some(vcs[i].drawing)
    /\ vcs' = dismiss(i, Completion("canvasDidMinimize", None,
                                    vcs[i].drawing # <<>>))

Block(name, call) == [block |-> name, call |-> call]

(***************************************************************************)
(* The web layer                                                           *)
(***************************************************************************)
\* The Open Canvas button of page.tsx, disabled while the hook's isCanvasOpen
\* is set and out of reach under a presented sheet: openCanvas of
\* useCanvasPlugin up to its await; the plugin method openCanvas hands its
\* block to the main queue
UseCanvasOpenCanvas ==
    /\ inputs < MaxInputs
    /\ inputs' = inputs + 1
    /\ ~webIsCanvasOpen
    /\ ~PresenterBusy
    /\ webIsCanvasOpen' = TRUE
    /\ calls' = Append(calls, PendingCall)
    /\ mainQueue' = Append(mainQueue, Block("openCanvas", Len(calls) + 1))
    /\ UNCHANGED <<preservedDrawing, vcs, canvasViewController, currentCall,
                   isCanvasOpen, isPencilInitiated, bridgeViewController,
                   events, hasUnsavedContent, sentMessages, lastSubmit>>
    /\ UNCHANGED <<geomVars, apiVars>>

\* openCanvas of useCanvasPlugin after its await, for a settled call; onSubmit
\* of page.tsx hands the image to sendMessage
UseCanvasResume ==
    \E c \in 1..Len(calls) :
        /\ calls[c].state # "pending"
        /\ ~calls[c].resumed
        /\ calls' = [calls EXCEPT ![c].resumed = TRUE]
        /\ LET result == calls[c].result
           IN  CASE calls[c].state = "rejected" ->
                      /\ hasUnsavedContent' = HasContent(preservedDrawing)
                      /\ UNCHANGED sentMessages
                 [] result.action = "submitted" ->
                      /\ sentMessages' =
                           IF result.imageData # None
                           THEN Append(sentMessages, The(result.imageData))
                           ELSE sentMessages
                      /\ hasUnsavedContent' = FALSE
                 [] result.action = "minimized" ->
                      /\ hasUnsavedContent' = result.hasContent
                      /\ UNCHANGED sentMessages
                 [] OTHER ->
                      /\ hasUnsavedContent' = HasContent(preservedDrawing)
                      /\ UNCHANGED sentMessages
        /\ webIsCanvasOpen' = FALSE
        /\ UNCHANGED <<preservedDrawing, vcs, canvasViewController,
                       currentCall, isCanvasOpen, isPencilInitiated,
                       bridgeViewController, mainQueue, events, inputs,
                       lastSubmit>>
        /\ UNCHANGED <<geomVars, apiVars>>

\* The New Conversation button of page.tsx, out of reach under a presented
\* sheet: handleNewConversation calls clearCanvas of the hook, which calls
\* the plugin method clearCanvas
HandleNewConversation ==
    /\ ~PresenterBusy
    /\ preservedDrawing' = ClearCanvas(preservedDrawing)
    /\ hasUnsavedContent' = FALSE
    /\ UNCHANGED <<vcs, canvasViewController, currentCall, isCanvasOpen,
                   isPencilInitiated, bridgeViewController, mainQueue, calls,
                   events, webIsCanvasOpen, sentMessages, inputs, lastSubmit>>
    /\ UNCHANGED <<geomVars, apiVars>>

(***************************************************************************)
(* CanvasPlugin                                                            *)
(***************************************************************************)
\* the block of openCanvas
OpenCanvas ==
    /\ mainQueue # <<>> /\ Head(mainQueue).block = "openCanvas"
    /\ mainQueue' = Tail(mainQueue)
    /\ currentCall' = Head(mainQueue).call
    /\ isPencilInitiated' = FALSE
    /\ presentCanvas
    /\ calls' = IF bridgeViewController
                THEN calls
                ELSE Settle(Head(mainQueue).call, "rejected",
                            Result("", None, FALSE))
    /\ UNCHANGED <<preservedDrawing, isCanvasOpen, bridgeViewController,
                   events, webIsCanvasOpen, hasUnsavedContent, sentMessages,
                   inputs, lastSubmit>>
    /\ UNCHANGED <<geomVars, apiVars>>

\* pencilInteractionDidTap: pencilInteractionDidRequestToggle reads
\* isCanvasOpen and hands a block to the main queue
PencilInteractionDidRequestToggle ==
    /\ inputs < MaxInputs
    /\ inputs' = inputs + 1
    /\ mainQueue' =
         Append(mainQueue,
                IF isCanvasOpen
                THEN Block("minimizeCanvasFromPencilTap", 0)
                ELSE Block("openCanvasFromPencilTap", 0))
    /\ UNCHANGED <<preservedDrawing, vcs, canvasViewController, currentCall,
                   isCanvasOpen, isPencilInitiated, bridgeViewController,
                   calls, events, webIsCanvasOpen, hasUnsavedContent,
                   sentMessages, lastSubmit>>
    /\ UNCHANGED <<geomVars, apiVars>>

\* the block of openCanvasFromPencilTap
OpenCanvasFromPencilTap ==
    /\ mainQueue # <<>> /\ Head(mainQueue).block = "openCanvasFromPencilTap"
    /\ mainQueue' = Tail(mainQueue)
    /\ isPencilInitiated' = TRUE
    /\ presentCanvas
    /\ UNCHANGED <<preservedDrawing, currentCall, isCanvasOpen,
                   bridgeViewController, calls, events, webIsCanvasOpen,
                   hasUnsavedContent, sentMessages, inputs, lastSubmit>>
    /\ UNCHANGED <<geomVars, apiVars>>

\* the block of minimizeCanvasFromPencilTap
MinimizeCanvasFromPencilTap ==
    /\ mainQueue # <<>>
    /\ Head(mainQueue).block = "minimizeCanvasFromPencilTap"
    /\ mainQueue' = Tail(mainQueue)
    /\ IF canvasViewController = 0
       THEN UNCHANGED <<preservedDrawing, vcs>>
       ELSE minimizeCanvas(canvasViewController)
    /\ UNCHANGED <<canvasViewController, currentCall, isCanvasOpen,
                   isPencilInitiated, bridgeViewController, calls, events,
                   webIsCanvasOpen, hasUnsavedContent, sentMessages, inputs,
                   lastSubmit>>
    /\ UNCHANGED <<geomVars, apiVars>>

\* the completion of present(_:animated:completion:)
PresentCompleted ==
    \E i \in 1..Len(vcs) :
        /\ vcs[i].stage = "presenting"
        /\ vcs' = [vcs EXCEPT ![i].stage = "presented"]
        /\ isCanvasOpen' = TRUE
        /\ UNCHANGED <<preservedDrawing, canvasViewController, currentCall,
                       isPencilInitiated, bridgeViewController, mainQueue,
                       calls, events, webIsCanvasOpen, hasUnsavedContent,
                       sentMessages, inputs, lastSubmit>>
        /\ UNCHANGED <<geomVars, apiVars>>

\* the completion of dismiss(animated:completion:): the delegate callback
\* submitTapped or minimizeCanvas handed to it
DismissCompleted ==
    \E i \in 1..Len(vcs) :
        /\ vcs[i].stage = "dismissing"
        /\ vcs' = [vcs EXCEPT ![i].stage = "dismissed",
                              ![i].completion = None]
        /\ LET completion == The(vcs[i].completion)
           IN  IF completion.cb = "canvasDidSubmit"
               THEN /\ canvasDidSubmit(The(completion.imageData))
               ELSE /\ canvasDidMinimize(completion.hasContent)
        /\ UNCHANGED <<preservedDrawing, bridgeViewController, mainQueue,
                       webIsCanvasOpen, hasUnsavedContent, sentMessages,
                       inputs, lastSubmit>>
        /\ UNCHANGED <<geomVars, apiVars>>

(***************************************************************************)
(* CanvasViewController                                                    *)
(***************************************************************************)
\* the pencil adds a stroke to the canvas on screen
DrawStroke ==
    \E i \in 1..Len(vcs), stroke \in InkStrokes :
        /\ vcs[i].stage = "presented"
        /\ Len(vcs[i].drawing) < MaxInk
        /\ vcs' = [vcs EXCEPT ![i].drawing = Append(@, stroke)]
        /\ UNCHANGED <<preservedDrawing, canvasViewController, currentCall,
                       isCanvasOpen, isPencilInitiated, bridgeViewController,
                       mainQueue, calls, events, webIsCanvasOpen,
                       hasUnsavedContent, sentMessages, inputs, lastSubmit>>
        /\ UNCHANGED <<geomVars, apiVars>>

\* what submitTapped calls after its guard, in the order of the calls, up to
\* and including the encoding by pngData()
RanToEncoding ==
    <<"calculateBoundingBox", "addPaddingToBoundingBox",
      "clipPaddedBoxToCanvasBounds", "scaleIfNeeded", "image",
      "logExportDimensions", "pngData">>

\* no stroke counts as empty
StrokesNeverEmpty(d) == FALSE

\* drawing.strokes.isEmpty
StrokesIsEmpty(d) == d = <<>>

\* submitTapped; pngData tells whether image.pngData() returns data
SubmitTapped ==
    \E i \in 1..Len(vcs), pngData \in BOOLEAN :
        /\ vcs[i].stage = "presented"
        /\ IF StrokesIsEmpty(vcs[i].drawing)
           THEN /\ lastSubmit' = [vc |-> i, rendered |-> FALSE,
                                  encoded |-> FALSE, ran |-> <<>>]
                /\ UNCHANGED <<preservedDrawing, vcs, canvasViewController,
                               currentCall, isCanvasOpen, isPencilInitiated,
                               calls, events, inputs>>
           ELSE IF ~pngData
           THEN /\ inputs < MaxInputs
                /\ inputs' = inputs + 1
                /\ lastSubmit' = [vc |-> i, rendered |-> TRUE,
                                  encoded |-> FALSE, ran |-> RanToEncoding]
                /\ canvasDidCancel
                /\ UNCHANGED <<preservedDrawing, vcs>>
           ELSE /\ lastSubmit' =
                     [vc |-> i, rendered |-> TRUE, encoded |-> TRUE,
                      ran |-> Append(RanToEncoding, "logTransferMetrics")]
                /\ preservedDrawing' = None
                /\ vcs' = dismiss(i,
                            Completion("canvasDidSubmit",
                              Some(RenderImage(vcs[i].drawing, ViewBounds)),
                              FALSE))
                /\ UNCHANGED <<canvasViewController, currentCall, isCanvasOpen,
                               isPencilInitiated, calls, events, inputs>>
        /\ UNCHANGED <<bridgeViewController, mainQueue, webIsCanvasOpen,
                       hasUnsavedContent, sentMessages>>
        /\ UNCHANGED <<geomVars, apiVars>>

\* minimizeTapped
MinimizeTapped ==
    \E i \in 1..Len(vcs) :
        /\ vcs[i].stage = "presented"
        /\ minimizeCanvas(i)
        /\ UNCHANGED <<canvasViewController, currentCall, isCanvasOpen,
                       isPencilInitiated, bridgeViewController, mainQueue,
                       calls, events, webIsCanvasOpen, hasUnsavedContent,
                       sentMessages, inputs, lastSubmit>>
        /\ UNCHANGED <<geomVars, apiVars>>

\* presentationControllerWillDismiss: the sheet starts to follow a swipe
PresentationControllerWillDismiss ==
    \E i \in 1..Len(vcs) :
        /\ vcs[i].stage = "presented"
        /\ preservedDrawing' = Some(vcs[i].drawing)
        /\ vcs' = [vcs EXCEPT ![i].stage = "swiping"]
        /\ UNCHANGED <<canvasViewController, currentCall, isCanvasOpen,
                       isPencilInitiated, bridgeViewController, mainQueue,
                       calls, events, webIsCanvasOpen, hasUnsavedContent,
                       sentMessages, inputs, lastSubmit>>
        /\ UNCHANGED <<geomVars, apiVars>>

\* presentationControllerDidDismiss: the swipe has dismissed the sheet
PresentationControllerDidDismiss ==
    \E i \in 1..Len(vcs) :
        /\ vcs[i].stage = "swiping"
        /\ vcs' = [vcs EXCEPT ![i].stage = "dismissed"]
        /\ canvasDidMinimize(vcs[i].drawing # <<>>)
        /\ UNCHANGED <<preservedDrawing, bridgeViewController, mainQueue,
                       webIsCanvasOpen, hasUnsavedContent, sentMessages,
                       inputs, lastSubmit>>
        /\ UNCHANGED <<geomVars, apiVars>>

Init ==
    /\ \E bridgeVC \in BOOLEAN : PluginLoaded(bridgeVC)
    /\ GeomIdle
    /\ ApiIdle

Next ==
    \/ UseCanvasOpenCanvas
    \/ UseCanvasResume
    \/ HandleNewConversation
    \/ OpenCanvas
    \/ PencilInteractionDidRequestToggle
    \/ OpenCanvasFromPencilTap
    \/ MinimizeCanvasFromPencilTap
    \/ PresentCompleted
    \/ DismissCompleted
    \/ DrawStroke
    \/ SubmitTapped
    \/ MinimizeTapped
    \/ PresentationControllerWillDismiss
    \/ PresentationControllerDidDismiss

vars == <<geomVars, plugVars, apiVars>>

Spec == Init /\ [][Next]_vars

\* What the platform runs without waiting for the user: the blocks handed to
\* DispatchQueue.main.async, the completions of present and dismiss, the end
\* of a swipe-dismiss, and the continuation of the awaited openCanvas promise.
\* Gestures and button presses of the user carry no fairness.
Fairness ==
    /\ WF_vars(OpenCanvas)
    /\ WF_vars(OpenCanvasFromPencilTap)
    /\ WF_vars(MinimizeCanvasFromPencilTap)
    /\ WF_vars(PresentCompleted)
    /\ WF_vars(DismissCompleted)
    /\ WF_vars(PresentationControllerDidDismiss)
    /\ WF_vars(UseCanvasResume)

FairSpec == Spec /\ Fairness

(***************************************************************************)
(* The chat route (app/api/chat/route.ts), the transfer metrics            *)
(* (logTransferMetrics of Canvas.swift, calculateTransferMetrics of        *)
(* lib/api-config.ts), the proxy (proxy.ts) and the report of the export   *)
(* dimensions (logExportDimensions of Canvas.swift).                       *)
(***************************************************************************)
\* the value of the x-api-key header and of API_SECRET_KEY: missing, the
\* empty string or a key
Keys == {None, Some(""), Some("k1"), Some("k2")}

MultipartBodies ==
    {"malformed", "noData", "badData", "noMessages", "noModel", "ok"}

JsonBodies == {"malformed", "noMessages", "noModel", "ok"}

Requests ==
    {[apiKey |-> k, contentType |-> "multipart/form-data", body |-> b] :
        k \in Keys, b \in MultipartBodies}
    \cup {[apiKey |-> k, contentType |-> "application/json", body |-> b] :
            k \in Keys, b \in JsonBodies}

\* JavaScript's !s for a string that may be missing
Falsy(s) == s = None \/ The(s) = ""

\* the guard dropped: the header is compared with API_SECRET_KEY as it is
validateApiKeyUnguarded(req, expectedKey) == req.apiKey = expectedKey

validateApiKey(req, expectedKey) ==
    IF Falsy(expectedKey) \/ Falsy(req.apiKey)
    THEN FALSE
    ELSE The(req.apiKey) = The(expectedKey)

Response(status, error, bodyRead, forwarded) ==
    [status |-> status, error |-> error, bodyRead |-> bodyRead,
     forwarded |-> forwarded]

\* POST: the response, whether the body was read (req.formData(), req.json())
\* and whether streamText was called
POST(req, expectedKey) ==
    IF ~validateApiKey(req, expectedKey)
    THEN Response(401, "Unauthorized", FALSE, FALSE)
    ELSE IF req.contentType = "multipart/form-data"
    THEN CASE req.body = "malformed" ->
                Response(400, "Failed to parse multipart request", TRUE, FALSE)
           [] req.body = "noData" ->
                Response(400, "Missing data field", TRUE, FALSE)
           [] req.body = "badData" ->
                Response(400, "Invalid JSON in data field", TRUE, FALSE)
           [] req.body = "noMessages" ->
                Response(400, "Invalid or missing messages array", TRUE, FALSE)
           [] req.body = "noModel" ->
                Response(400, "Missing model field", TRUE, FALSE)
           [] OTHER -> Response(200, "", TRUE, TRUE)
    ELSE CASE req.body = "malformed" ->
                Response(400, "Invalid JSON request", TRUE, FALSE)
           [] req.body = "noMessages" ->
                Response(400, "Invalid or missing messages array", TRUE, FALSE)
           [] req.body = "noModel" ->
                Response(400, "Missing model field", TRUE, FALSE)
           [] OTHER -> Response(200, "", TRUE, TRUE)

RECURSIVE BigToNat(_)
BigToNat(a) == IF a = <<>> THEN 0 ELSE Head(a) + Base * BigToNat(Tail(a))

\* ceil(d) as an integer, for a binary64 d
DblCeil(d) ==
    IF d.e >= 0 THEN BigToNat(BigShl(d.m, d.e))
    ELSE LET sh == BigShr(d.m, -d.e)
         IN  BigToNat(sh.q) + (IF sh.half \/ sh.sticky THEN 1 ELSE 0)

RECURSIVE Gcd(_, _)
Gcd(a, b) == IF b = 0 THEN a ELSE Gcd(b, a % b)

\* Double(a) / Double(b) for integers a >= 0 and b > 0: the rounded quotient
\* depends on the value a / b only, so the fraction is reduced first to keep
\* the divisor small
FDivInts(a, b) == FDiv(a \div Gcd(a, b), b \div Gcd(a, b))

DblNaN == [k |-> "nan", m |-> <<>>, e |-> 0]

\* the quotient rounded down instead of up
Base64SizeFloor(n) == (4 * n) \div 3

\* ceil(Double(binarySize) * 4.0 / 3.0); the product is exact
Base64Size(n) == DblCeil(FDivInts(4 * n, 3))

Metrics(n, base64Size, savings, savingsPercent) ==
    [binarySize |-> n, base64Size |-> base64Size, savingsBytes |-> savings,
     savingsPercent |-> savingsPercent]

\* what logTransferMetrics prints
logTransferMetrics(n) ==
    LET base64Size == Base64Size(n)
        savings    == base64Size - n
    IN  Metrics(n, base64Size, savings,
                IF base64Size > 0
                THEN FMul(100, FDivInts(savings, base64Size))
                ELSE DblFromInt(0))

\* 0 / 0 is NaN in JavaScript
calculateTransferMetrics(n) ==
    LET base64Size == Base64Size(n)
        savings    == base64Size - n
    IN  Metrics(n, base64Size, savings,
                IF base64Size = 0 THEN DblNaN
                ELSE FMul(100, FDivInts(savings, base64Size)))

RECURSIVE BigMul(_, _)
\* a * b
BigMul(a, b) ==
    IF a = <<>> \/ b = <<>> THEN <<>>
    ELSE LET rest == BigMul(a, Tail(b))
         IN  BigAdd(BigMulSmall(a, Head(b)),
                    IF rest = <<>> THEN <<>> ELSE <<0>> \o rest)

\* a * b in binary64, for finite a and b
FMulDbl(a, b) == DblRound(BigMul(a.m, b.m), a.e + b.e, FALSE)

\* a / Double(w * h) in binary64, for a finite a and whole numbers w and h
\* whose product is exact in binary64 (the sides of the view's bounds):
\* x / 0 is +infinity, 0 / 0 is NaN
FDivByArea(a, w, h) ==
    IF w = 0 \/ h = 0 THEN (IF a.m = <<>> THEN DblNaN ELSE DblInf)
    ELSE IF a.m = <<>> THEN DblFromInt(0)
    ELSE LET s  == Max(0, 56 + BitLen(w) + BitLen(h) - BigBitLen(a.m))
             d1 == BigDivSmall(BigShl(a.m, s), w)
             d2 == BigDivSmall(d1.q, h)
         IN  DblRound(d2.q, a.e - s, d1.r # 0 \/ d2.r # 0)

\* a binary64 value with its sign
Signed(neg, abs) == [neg |-> neg, abs |-> abs]

\* 1.0 - q in binary64, for a finite q
OneMinus(q) ==
    LET d == ExactAbsDiff(DblFromInt(1), q)
    IN  Signed(DblCmp(q, DblFromInt(1)) > 0, DblRound(d.m, d.e, FALSE))

\* what logExportDimensions computes: the two areas, the reduction, and the
\* divisor of the division it ran (None when it ran none)
ExportMetrics(originalArea, finalArea, reduction, divisor) ==
    [originalArea |-> originalArea, finalArea |-> finalArea,
     reduction |-> reduction, divisor |-> divisor]

\* the guard on originalArea dropped
logExportDimensionsUnguarded(d) ==
    LET originalArea == FMulDbl(d.original.width, d.original.height)
        finalArea    == FMulDbl(d.final.width, d.final.height)
        quotient     == FDivByArea(finalArea, DblCeil(d.original.width),
                                   DblCeil(d.original.height))
    IN  ExportMetrics(originalArea, finalArea,
                      IF quotient.k = "fin"
                      THEN LET r == OneMinus(quotient)
                           IN  Signed(r.neg, FMul(100, r.abs))
                      ELSE Signed(quotient.k = "inf", quotient),
                      Some(originalArea))

logExportDimensions(d) ==
    LET originalArea == FMulDbl(d.original.width, d.original.height)
        finalArea    == FMulDbl(d.final.width, d.final.height)
    IN  IF DblCmp(originalArea, DblFromInt(0)) > 0
        THEN LET r == OneMinus(FDivByArea(finalArea,
                                          DblCeil(d.original.width),
                                          DblCeil(d.original.height)))
             IN  ExportMetrics(originalArea, finalArea,
                               Signed(r.neg, FMul(100, r.abs)),
                               Some(originalArea))
        ELSE ExportMetrics(originalArea, finalArea,
                           Signed(FALSE, DblFromInt(0)), None)

\* the sizes submitTapped hands to logExportDimensions for a canvas and a
\* padded box
PipelineDimensions(bounds, padded) ==
    LET clipped == clipPaddedBoxToCanvasBounds(padded, bounds)
    IN  Dimensions(SizeOf(bounds), SizeOf(clipped),
                   scaleIfNeeded(clipped, MaxDimension).size)

DimensionSets ==
    {PipelineDimensions(b, p) :
        b \in Canvases \cup {CGRect(0, 0, 0, 2732)}, p \in PaddedBoxes}
        \cup {Dimensions(SizeOf(CGRect(0, 0, w, h)),
                         SizeOf(CGRect(0, 0, 64, 64)),
                         SizeOf(CGRect(0, 0, 64, 64))) : w, h \in {0, 1, 100}}

MaxSize == 12

\* sizes of a binary payload, in bytes
Sizes == 0..MaxSize \cup {750000}

\* proxy (proxy.ts).  A pathname is the sequence of its characters.
Methods == {"GET", "POST", "OPTIONS"}

Pathnames ==
    { <<"/">>,
      <<"/", "a", "p", "i">>,
      <<"/", "a", "p", "i", "/">>,
      <<"/", "a", "p", "i", "/", "c", "h", "a", "t">>,
      <<"/", "a", "p", "i", "x">>,
      <<"/", "x", "/", "a", "p", "i", "/">>,
      <<"/", "l", "o", "g", "o", ".", "p", "n", "g">> }

ProxyRequests ==
    {[method |-> m, pathname |-> p] : m \in Methods, p \in Pathnames}

\* NODE_ENV and API_ONLY_MODE: unset or a string
Envs ==
    {[NODE_ENV |-> n, API_ONLY_MODE |-> a] :
        n \in {None, Some("production"), Some("development")},
        a \in {None, Some("true"), Some("false")}}

\* a comparison of the first character only
StartsWithSlash(s, prefix) == s # <<>> /\ s[1] = prefix[1]

\* String.prototype.startsWith
StartsWith(s, prefix) ==
    Len(s) >= Len(prefix) /\ SubSeq(s, 1, Len(prefix)) = prefix

\* what proxy returns: NextResponse.next() or a response of its own, the
\* status, and whether the CORS headers are set
ProxyResponse(next, status, cors) ==
    [next |-> next, status |-> status, cors |-> cors]

\* checkCORS: the preflight response, or None
checkCORS(req) ==
    IF req.method = "OPTIONS" THEN Some(ProxyResponse(FALSE, 204, TRUE))
    ELSE None

addCorsHeaders(resp) == [resp EXCEPT !.cors = TRUE]

NextResponseNext == ProxyResponse(TRUE, 200, FALSE)

proxy(req, e) ==
    LET corsResponse  == checkCORS(req)
        isProduction  == e.NODE_ENV = Some("production")
        isApiOnlyMode == e.API_ONLY_MODE = Some("true")
    IN  IF corsResponse # None THEN The(corsResponse)
        ELSE IF isProduction /\ isApiOnlyMode
        THEN IF StartsWith(req.pathname, <<"/", "a", "p", "i", "/">>)
             THEN addCorsHeaders(NextResponseNext)
             ELSE ProxyResponse(FALSE, 404, FALSE)
        ELSE addCorsHeaders(NextResponseNext)

ApiOps ==
    { "POST", "logTransferMetrics", "calculateTransferMetrics", "proxy",
      "logExportDimensions" }

ApiInit ==
    /\ apiPc = "call"
    /\ apiOp \in ApiOps
    /\ request \in CASE apiOp = "POST" -> Requests
                      [] apiOp = "proxy" -> ProxyRequests
                      [] OTHER -> {NoRequest}
    /\ apiSecretKey \in IF apiOp = "POST" THEN Keys ELSE {None}
    /\ binarySize \in
         IF apiOp \in {"logTransferMetrics", "calculateTransferMetrics"}
         THEN Sizes ELSE {0}
    /\ response = NoResponse
    /\ metrics = NoMetrics
    /\ env \in IF apiOp = "proxy" THEN Envs ELSE {NoEnv}
    /\ dimensions \in
         IF apiOp = "logExportDimensions" THEN DimensionSets
         ELSE {NoDimensions}
    /\ GeomIdle
    /\ PluginLoaded(TRUE)

Post ==
    /\ apiPc = "call" /\ apiOp = "POST"
    /\ response' = POST(request, apiSecretKey)
    /\ apiPc' = "done"
    /\ UNCHANGED <<apiOp, request, apiSecretKey, binarySize, metrics, env,
                   dimensions>>
    /\ UNCHANGED <<geomVars, plugVars>>

LogTransferMetrics ==
    /\ apiPc = "call" /\ apiOp = "logTransferMetrics"
    /\ metrics' = logTransferMetrics(binarySize)
    /\ apiPc' = "done"
    /\ UNCHANGED <<apiOp, request, apiSecretKey, binarySize, response, env,
                   dimensions>>
    /\ UNCHANGED <<geomVars, plugVars>>

CalculateTransferMetrics ==
    /\ apiPc = "call" /\ apiOp = "calculateTransferMetrics"
    /\ metrics' = calculateTransferMetrics(binarySize)
    /\ apiPc' = "done"
    /\ UNCHANGED <<apiOp, request, apiSecretKey, binarySize, response, env,
                   dimensions>>
    /\ UNCHANGED <<geomVars, plugVars>>

Proxy ==
    /\ apiPc = "call" /\ apiOp = "proxy"
    /\ response' = proxy(request, env)
    /\ apiPc' = "done"
    /\ UNCHANGED <<apiOp, request, apiSecretKey, binarySize, metrics, env,
                   dimensions>>
    /\ UNCHANGED <<geomVars, plugVars>>

LogExportDimensions ==
    /\ apiPc = "call" /\ apiOp = "logExportDimensions"
    /\ metrics' = logExportDimensions(dimensions)
    /\ apiPc' = "done"
    /\ UNCHANGED <<apiOp, request, apiSecretKey, binarySize, response, env,
                   dimensions>>
    /\ UNCHANGED <<geomVars, plugVars>>

ApiNext ==
    \/ Post
    \/ LogTransferMetrics
    \/ CalculateTransferMetrics
    \/ Proxy
    \/ LogExportDimensions

ApiSpec == ApiInit /\ [][ApiNext]_apiVars

(***************************************************************************)
(* Properties of the plugin                                                *)
(***************************************************************************)
\* a step of submitTapped (one that its record of the last submit shows)
SubmitStep == lastSubmit' # lastSubmit

\* what the plugin has handed to the web layer, what the web layer has sent
Delivered == <<calls, events, sentMessages>>

\* C11: a submit of a drawing with zero strokes renders and encodes no image,
\* delivers nothing, leaves the preserved-drawing slot as it was and leaves
\* the canvas (the view controllers, the plugin's fields) as it was.
C11_EmptySubmitIsNoOp ==
    [][(SubmitStep /\ vcs[lastSubmit'.vc].drawing = <<>>)
         => /\ ~lastSubmit'.rendered
            /\ ~lastSubmit'.encoded
            /\ UNCHANGED Delivered
            /\ UNCHANGED preservedDrawing
            /\ UNCHANGED <<vcs, canvasViewController, currentCall,
                           isCanvasOpen, isPencilInitiated, mainQueue>>]_vars

C11_Witness ==
    /\ lastSubmit.vc # 0
    /\ ~lastSubmit.rendered
    /\ vcs[lastSubmit.vc].stage = "presented"
    /\ vcs[lastSubmit.vc].drawing = <<>>
    /\ currentCall # 0 /\ calls[currentCall].state = "pending"
    /\ isCanvasOpen

\* C12: a drawing that has strokes, none of which has a point, is treated by
\* submit like a drawing with zero strokes: nothing is rendered.
C12_PointlessStrokesNotRendered ==
    (Returned("submitTapped") /\ PointsOf(drawing) = {}) => ~rendered

\* a step of submitTapped in which image.pngData() returns nil
EncodingFailedStep == SubmitTapped /\ inputs' = inputs + 1

\* the results handed to the web layer in this step, by resolving a call or
\* by notifying the listeners
DeliveredNow ==
    {calls'[c].result :
        c \in {d \in 1..Len(calls) : calls'[d].state # calls[d].state}}
      \cup {events'[n].data : n \in (Len(events) + 1)..Len(events')}

\* C13: when PNG encoding fails during a submit, no 'submitted' result and
\* no image data are delivered for the attempt, and a failure outcome (a
\* result with action 'cancelled') is delivered instead.
C13_EncodingFailureSignalled ==
    [][EncodingFailedStep
         => /\ \A r \in DeliveredNow :
                  r.action = "cancelled" /\ r.imageData = None
            /\ DeliveredNow # {}
            /\ UNCHANGED vcs]_vars

\* C14: when a result with action 'submitted' is delivered, it carries
\* hasContent = false and the preserved-drawing slot is empty, so that
\* hasContent() returns false.
C14_SubmitClearsSlot ==
    [][\A r \in DeliveredNow :
          r.action = "submitted"
            => ~r.hasContent /\ ~HasContent(preservedDrawing')]_vars

\* the canvas the user sees and can touch
Presented == {i \in 1..Len(vcs) : vcs[i].stage = "presented"}

\* a step that presents a new canvas
ReopenStep ==
    /\ Len(vcs') = Len(vcs) + 1
    /\ vcs'[Len(vcs')].stage = "presenting"

\* C15: minimizing a canvas with at least one stroke (by button, by pencil
\* double-tap or by swipe) stores its drawing in the preserved slot, so that
\* hasContent() returns true; until the canvas is reopened the slot keeps
\* its content unless a submit or clearCanvas empties it; reopening shows
\* exactly the stored drawing.
C15_MinimizeReopenRoundTrip ==
    [][/\ (MinimizeTapped \/ PresentationControllerWillDismiss)
            => \E i \in Presented :
                  /\ preservedDrawing' = Some(vcs[i].drawing)
                  /\ vcs[i].drawing # <<>> => HasContent(preservedDrawing')
       /\ (HasContent(preservedDrawing) /\ ~HasContent(preservedDrawing'))
            => (HandleNewConversation \/ SubmitStep)
       /\ (ReopenStep /\ preservedDrawing # None)
            => vcs'[Len(vcs')].drawing = The(preservedDrawing)]_vars

\* C16: from any state of the preserved-drawing slot (nothing stored, an
\* empty drawing stored, a drawing with strokes stored), the state right after
\* clearCanvas() has completed is one in which hasContent() returns false.
C16_ClearCanvasEmptiesSlot ==
    [][HandleNewConversation => ~HasContent(preservedDrawing')]_vars

\* a drawing with a stroke was minimized (the call reported hasContent), no
\* other canvas was opened since, and the slot is empty: clearCanvas emptied it
C16_Witness ==
    /\ Len(vcs) = 1 /\ vcs[1].stage = "dismissed" /\ vcs[1].drawing # <<>>
    /\ Len(calls) = 1 /\ calls[1].state = "resolved"
    /\ calls[1].result.action = "minimized" /\ calls[1].result.hasContent
    /\ preservedDrawing = None /\ ~hasUnsavedContent

\* the submits that succeeded with an image: the results the plugin handed
\* over with action "submitted" and image data, by resolving the call of the
\* button or by notifying the listeners of "canvasSubmitted"
SubmittedByCall ==
    {c \in 1..Len(calls) : /\ calls[c].state = "resolved"
                           /\ calls[c].result.action = "submitted"
                           /\ calls[c].result.imageData # None}

SubmittedByEvent ==
    {n \in 1..Len(events) : /\ events[n].name = "canvasSubmitted"
                            /\ events[n].data.imageData # None}

SubmittedImages == Cardinality(SubmittedByCall) + Cardinality(SubmittedByEvent)

\* C17: every successful submit with content, of a canvas opened by the
\* button or by a pencil double-tap, leads to the web layer sending the
\* exported image as a chat message: whenever a submit has been delivered,
\* the chat eventually holds as many image messages as submits were delivered.
C17_SubmitReachesChat ==
    (SubmittedImages > Len(sentMessages))
        ~> (SubmittedImages = Len(sentMessages))

\* the canvas is open when a sheet is on its way in or fully presented, and
\* closed when there is none or it is on its way out
CanvasOpen ==
    \E i \in 1..Len(vcs) : vcs[i].stage \in {"presenting", "presented"}

\* the work a detected double-tap schedules
ToggleStep == OpenCanvasFromPencilTap \/ MinimizeCanvasFromPencilTap

\* C18: a detected pencil double-tap moves the canvas to the opposite state:
\* the work it schedules opens a closed canvas and minimizes an open one
\* (given a view controller to present from), so that a sequence of
\* double-taps alternates between open and closed.
C18_DoubleTapToggles ==
    [][(ToggleStep /\ bridgeViewController) => CanvasOpen' # CanvasOpen]_vars

(***************************************************************************)
(* Properties of the chat route and of the transfer metrics                *)
(***************************************************************************)
ApiReturned(o) == apiPc = "done" /\ apiOp = o

\* C19: a POST whose x-api-key header is missing, or differs from
\* API_SECRET_KEY, or arrives while API_SECRET_KEY is unset, is answered 401
\* with the body {error: 'Unauthorized'}, and the request body has been
\* neither read nor forwarded to the AI provider.
C19_UnauthorizedBeforeBody ==
    (/\ ApiReturned("POST")
     /\ \/ request.apiKey = None
        \/ apiSecretKey = None
        \/ request.apiKey # apiSecretKey)
        => response = Response(401, "Unauthorized", FALSE, FALSE)

\* a well-formed request with a wrong key was turned away
C19_Witness ==
    /\ ApiReturned("POST")
    /\ request.apiKey = Some("k2") /\ apiSecretKey = Some("k1")
    /\ request.body = "ok"
    /\ response.status = 401 /\ ~response.bodyRead /\ ~response.forwarded

MetricsReturned ==
    ApiReturned("logTransferMetrics") \/ ApiReturned("calculateTransferMetrics")

\* the reported savings are at least a quarter of the base64 size, as a
\* ratio of the byte counts and as the reported percentage
SavingsAtLeastQuarter ==
    /\ metrics.base64Size = Base64Size(binarySize)
    /\ metrics.savingsBytes = metrics.base64Size - binarySize
    /\ 4 * metrics.savingsBytes >= metrics.base64Size
    /\ metrics.savingsPercent.k = "fin"
    /\ DblCmp(metrics.savingsPercent, DblFromInt(25)) >= 0

\* Scenario E: 750,000 bytes
ScenarioE ==
    binarySize = 750000
        => /\ metrics.base64Size = 1000000
           /\ metrics.savingsBytes = 250000
           /\ metrics.savingsPercent = DblFromInt(25)

\* C20 as stated: for any binary payload size the reported savings are at
\* least 25 % of the theoretical base64 size, and 750,000 bytes give
\* 1,000,000 bytes, 250,000 bytes saved, 25 %.
C20_SavingsAnySize ==
    MetricsReturned => (SavingsAtLeastQuarter /\ ScenarioE)

\* C20, amended: for any binary payload size above zero the reported savings
\* are at least 25 % of the theoretical base64 size, and 750,000 bytes give
\* 1,000,000 bytes, 250,000 bytes saved, 25 %.
C20_SavingsPositiveSize ==
    (MetricsReturned /\ binarySize > 0) => (SavingsAtLeastQuarter /\ ScenarioE)

\* the metrics of Scenario E were computed
C20_Witness ==
    /\ MetricsReturned
    /\ binarySize = 750000
    /\ metrics.base64Size = 1000000
    /\ metrics.savingsPercent = DblFromInt(25)

(***************************************************************************)
(* Properties of the export pipeline, continued                            *)
(***************************************************************************)
\* the points with coordinates on or next to an edge of r1 or r2
GridOf(r1, r2) ==
    LET xs == UNION {{x - 1, x, x + 1} : x \in {MinX(r1), MaxX(r1),
                                                 MinX(r2), MaxX(r2)}}
        ys == UNION {{y - 1, y, y + 1} : y \in {MinY(r1), MaxY(r1),
                                                 MinY(r2), MaxY(r2)}}
    IN  {CGPoint(x, y) : x \in xs, y \in ys}

\* r1 and r2 share a rectangle of positive width and height
Overlap(r1, r2) ==
    \E p, q \in GridOf(r1, r2) :
        /\ p.x < q.x /\ p.y < q.y
        /\ Holds(r1, p) /\ Holds(r2, p) /\ Holds(r1, q) /\ Holds(r2, q)

\* r holds exactly the points that r1 and r2 both hold
IsIntersection(r, r1, r2) ==
    \A p \in GridOf(r1, r2) : Holds(r, p) <=> (Holds(r1, p) /\ Holds(r2, p))

ThreePointStroke == <<CGPoint(100, 100), CGPoint(150, 120), CGPoint(130, 90)>>

\* C21: when the padded box and the canvas share a non-empty rectangle the
\* clipped box is exactly that rectangle: a padded box inside the canvas
\* comes back unchanged, a padded box that covers the canvas gives the
\* canvas bounds.  The strokes (100,100), (150,120), (130,90) on 2048 x 2732
\* give the bounding box (100,90,50,30), padded (68,58,114,94), clipped
\* unchanged, scale 1.0 and final size 114 x 94; strokes spanning the canvas
\* give the canvas bounds at scale 1.0.
C21_ClipIsIntersection ==
    /\ (Returned("clipPaddedBoxToCanvasBounds") /\ Overlap(rect, canvasBounds))
          => /\ IsIntersection(clippedBox, rect, canvasBounds)
             /\ Within(rect, canvasBounds) => clippedBox = rect
             /\ Within(canvasBounds, rect) => clippedBox = canvasBounds
    /\ (Returned("submitTapped") /\ drawing # <<>>
            /\ Overlap(paddedBox, canvasBounds))
          => IsIntersection(clippedBox, paddedBox, canvasBounds)
    /\ (Returned("submitTapped") /\ drawing = <<ThreePointStroke>>
            /\ canvasBounds = CGRect(0, 0, 2048, 2732))
          => /\ boundingBox = CGRect(100, 90, 50, 30)
             /\ paddedBox = CGRect(68, 58, 114, 94)
             /\ clippedBox = paddedBox
             /\ scalingResult.scale = DblFromInt(1)
             /\ scalingResult.size = SizeOf(CGRect(0, 0, 114, 94))
    /\ (Returned("submitTapped")
            /\ drawing = <<(<<CGPoint(0, 0)>>), (<<CGPoint(2048, 2732)>>)>>
            /\ canvasBounds = CGRect(0, 0, 2048, 2732))
          => /\ paddedBox = CGRect(-32, -32, 2112, 2796)
             /\ clippedBox = canvasBounds
             /\ scalingResult.scale = DblFromInt(1)
             /\ scalingResult.size = SizeOf(canvasBounds)

\* a padded box that sticks out of the canvas on one side was cut there
C21_Witness ==
    /\ Returned("clipPaddedBoxToCanvasBounds")
    /\ Overlap(rect, canvasBounds)
    /\ ~Within(rect, canvasBounds) /\ ~Within(canvasBounds, rect)
    /\ clippedBox # rect /\ clippedBox # canvasBounds

\* the pathnames drawn that start with /api/
ApiPathnames ==
    { <<"/", "a", "p", "i", "/">>,
      <<"/", "a", "p", "i", "/", "c", "h", "a", "t">> }

ApiOnlyProduction ==
    env = [NODE_ENV |-> Some("production"), API_ONLY_MODE |-> Some("true")]

\* a path under /api/ is passed on with the CORS headers, any other path is
\* answered 404
OnlyApiRoutes ==
    IF request.pathname \in ApiPathnames
    THEN response.next /\ response.cors
    ELSE ~response.next /\ response.status = 404

C23_EmptySubmitIsAnswered ==
    [][(SubmitStep /\ vcs[lastSubmit'.vc].drawing = <<>>)
         => /\ DeliveredNow # {}
            /\ \A r \in DeliveredNow : r.imageData = None]_vars

\* the place of a call in what a submit ran, 0 when it did not run
PlaceOf(name, ran) ==
    IF \E n \in 1..Len(ran) : ran[n] = name
    THEN CHOOSE n \in 1..Len(ran) : ran[n] = name
    ELSE 0

Before(a, b, ran) ==
    PlaceOf(b, ran) # 0
        => (PlaceOf(a, ran) # 0 /\ PlaceOf(a, ran) < PlaceOf(b, ran))

MetricsCalls == {"logExportDimensions", "logTransferMetrics"}

\* C24: in every submit the stages run in the order bounds, padding,
\* clipping, scaling, rendering and encoding, metrics; a submit whose
\* encoding fails ends there: the metrics are computed and emitted only after
\* rendering and encoding have succeeded.
C24_MetricsAfterEncoding ==
    LET ran == lastSubmit.ran
    IN  /\ Before("calculateBoundingBox", "addPaddingToBoundingBox", ran)
        /\ Before("addPaddingToBoundingBox", "clipPaddedBoxToCanvasBounds", ran)
        /\ Before("clipPaddedBoxToCanvasBounds", "scaleIfNeeded", ran)
        /\ Before("scaleIfNeeded", "image", ran)
        /\ Before("image", "pngData", ran)
        /\ \A m \in MetricsCalls :
              /\ Before("image", m, ran)
              /\ Before("pngData", m, ran)
              /\ PlaceOf(m, ran) # 0 => lastSubmit.encoded

\* the steps that deliver the outcome of a minimize
MinimizeDelivery ==
    \/ PresentationControllerDidDismiss
    \/ /\ DismissCompleted
       /\ \E i \in 1..Len(vcs) :
             /\ vcs[i].stage = "dismissing" /\ vcs'[i].stage = "dismissed"
             /\ The(vcs[i].completion).cb = "canvasDidMinimize"

\* the canvas whose minimize is delivered in this step
Minimized == {i \in 1..Len(vcs) : vcs[i].stage # vcs'[i].stage}

\* C25: the notification a minimize (by button, by pencil double-tap or by
\* swipe) delivers to the web layer says "minimized" and carries hasContent
\* equal to whether the drawing of the minimized canvas has a stroke, and
\* hasContent() right after the delivery returns that value too.
C25_MinimizeReportsContent ==
    [][MinimizeDelivery
         => \A r \in DeliveredNow :
               /\ r.action = "minimized"
               /\ \A i \in Minimized : r.hasContent = (vcs[i].drawing # <<>>)
               /\ r.hasContent = HasContent(preservedDrawing')]_vars

\* a sheet is animating open or closed
InTransition ==
    \E i \in 1..Len(vcs) :
        vcs[i].stage \in {"presenting", "dismissing", "swiping"}

\* C26: a pencil double-tap that arrives while the canvas is animating open
\* or closed is ignored: it schedules neither the opening of a second canvas
\* nor the minimizing of the canvas in transition.
C26_TapInTransitionIgnored ==
    [][(PencilInteractionDidRequestToggle /\ InTransition)
         => UNCHANGED mainQueue]_vars

\* a * b, not rounded
ExactProduct(a, b) == DblNorm(BigMul(a.m, b.m), a.e + b.e)

\* d * 2^n, not rounded
ExactShift(d, n) == IF d.m = <<>> THEN d ELSE [d EXCEPT !.e = @ + n]

IsZero(d) == d.k = "fin" /\ d.m = <<>>

\* r is (1 - finalArea / originalArea) * 100 up to the rounding of binary64:
\* |r * originalArea - 100 * (originalArea - finalArea)| is below 2^-40 of
\* the larger area, and r is negative only when the final area is the larger
IsReduction(r, originalArea, finalArea) ==
    /\ r.abs.k = "fin"
    /\ (r.neg /\ ~IsZero(r.abs)) => DblCmp(finalArea, originalArea) > 0
    /\ (~r.neg /\ ~IsZero(r.abs)) => DblCmp(finalArea, originalArea) < 0
    /\ DblCmp(ExactShift(
                ExactAbsDiff(ExactProduct(r.abs, originalArea),
                             ExactTimes(100, ExactAbsDiff(originalArea,
                                                          finalArea))), 40),
              IF DblCmp(originalArea, finalArea) > 0
              THEN originalArea ELSE finalArea) <= 0

\* C27: the reported area reduction is (1 - finalArea / originalArea) * 100,
\* it is 0 whenever the area of the original canvas is 0, and no division by
\* zero is ever computed.
C27_ReductionGuarded ==
    ApiReturned("logExportDimensions")
        => LET originalArea == ExactProduct(dimensions.original.width,
                                            dimensions.original.height)
               finalArea    == ExactProduct(dimensions.final.width,
                                            dimensions.final.height)
           IN  /\ metrics.divisor # None => ~IsZero(The(metrics.divisor))
               /\ IsZero(originalArea)
                    => metrics.reduction = Signed(FALSE, DblFromInt(0))
               /\ ~IsZero(originalArea)
                    => IsReduction(metrics.reduction, originalArea, finalArea)

\* a canvas of width zero and a final image of 64 x 64: the reduction
\* reported is 0 and nothing was divided
C27_Witness ==
    /\ ApiReturned("logExportDimensions")
    /\ IsZero(dimensions.original.width)
    /\ ~IsZero(dimensions.original.height)
    /\ dimensions.final = SizeOf(CGRect(0, 0, 64, 64))
    /\ metrics.reduction = Signed(FALSE, DblFromInt(0))
    /\ metrics.divisor = None

\* nothing is on screen and nothing is scheduled
Closed == ~PresenterBusy /\ mainQueue = <<>>

\* C28: a button-initiated openCanvas call is never left pending once its
\* canvas has closed, whatever double-taps and further openCanvas calls came
\* in between: with no canvas on screen and no block scheduled, every call
\* is resolved or rejected.
C28_NoCallLeftPending ==
    Closed => \A c \in 1..Len(calls) : calls[c].state # "pending"

\* C29: at most one canvas view controller is on screen, and isCanvasOpen is
\* false only when none is: also after a submit whose encoding failed, and
\* between the call of present and its completion.
C29_OpenFlagMatchesScreen ==
    /\ Cardinality({i \in 1..Len(vcs) : vcs[i].stage \in OnScreen}) <= 1
    /\ ~isCanvasOpen => ~CanvasOpen

\* C30: for a bounding box whose width and height are not negative,
\* addPaddingToBoundingBox returns the origin (x - 32, y - 32) and exactly
\* the size (width + 64, height + 64), also where the unpadded width or
\* height is below 64: the floor of twice the margin never changes the
\* result of the inset.
C30_PaddingIsInset ==
    (Returned("addPaddingToBoundingBox") /\ rect.width >= 0 /\ rect.height >= 0)
        => /\ paddedBox = CGRect(rect.x - 32, rect.y - 32,
                                 rect.width + 64, rect.height + 64)
           /\ paddedBox = InsetBy(rect, -Padding, -Padding)

\* a box one point wide and 63 high came back 65 wide and 127 high
C30_Witness ==
    /\ Returned("addPaddingToBoundingBox")
    /\ rect = CGRect(10, 20, 1, 63)
    /\ paddedBox = CGRect(-22, -12, 65, 127)

====
